---- MODULE Spec2Model ----
(***************************************************************************)
(* A model of the painted-shared utilities: the debounce and throttle      *)
(* timer wrappers, the useConstant / useLatestRef / useLatestFunc hooks,    *)
(* the pipe combinator, isEquals and pick / omit.                           *)
(*                                                                         *)
(* Each family of operations has its own specification (SpecDebounce,      *)
(* SpecThrottle, ...) over its own group of variables; the variables of    *)
(* the other groups stay at their initial value.                           *)
(***************************************************************************)
EXTENDS Integers, Sequences, FiniteSets, TLC

(***************************************************************************)
(* Bounds of the model.                                                    *)
(***************************************************************************)
MaxTime == 6        \* the clock runs from StartTime to MaxTime
MaxDelay == 2       \* the delay argument is drawn from 1..MaxDelay
MaxCalls == 4       \* calls of a debounced / throttled wrapper
MaxRenders == 3     \* renders of a component instance
MaxApplies == 2     \* calls of the wrapper useLatestFunc returns
MaxSteps == 3       \* steps of a pipe chain
MaxObjs == 2        \* objects isEquals' arguments are built from
MaxKeys == 2        \* length of the key list handed to pick / omit

\* `let timeout: number | null = null` : window.setTimeout returns positive
\* handles, so 0 stands for "no handle" (null; for `previous`, undefined).
NoHandle == 0
\* Date.now() at the start of a run; a positive number of milliseconds.
StartTime == 1
Args == {"x", "y"}  \* the arguments a wrapper can be called with
\* useRef<T>() : no object (before the first render); also a hook returning undefined.
NoObj == 0
\* JavaScript values a hook is handed, by name; objA and objB are two objects.
Undefined == "undefined"
HookValues == {"0", "", "false", "1", "objA", "objB"}
Funcs == {"f", "g"}
\* ToBoolean, as `!x` and `x ? a : b` apply it.
Truthy(v) == v \notin {"undefined", "null", "false", "0", "", "NaN"}

VARIABLES
    now,          \* Date.now() and the timer clock
    delay,        \* the delay argument of debounce / throttle
    timers,       \* window's pending timers: handle -> [due, cb]
    nextId,       \* the next handle window.setTimeout returns
    timeout,      \* debounce's closure variable
    previous,     \* throttle's closure variable (NoHandle: undefined)
    defineTimer,  \* throttle's closure variable
    trace         \* history: the calls of the wrapper and the invocations of func

timerVars == <<now, delay, timers, nextId, timeout, previous, defineTimer, trace>>

VARIABLES
    refs,         \* the ref objects useRef has created: id -> current
    closures,     \* the functions useCallback was handed: id -> the ref it closes over
    nextObj,      \* the identity of the next object created
    refCell,      \* the component instance's useRef cell (NoObj: not rendered yet)
    memoCell,     \* the component instance's useCallback cell: [cb, dep]
    renders,      \* history: the renders of the component: [arg, called, ret]
    applied       \* history: the calls of a wrapper useLatestFunc returned

hookVars == <<refs, closures, nextObj, refCell, memoCell, renders, applied>>

VARIABLES
    pipeFirst,     \* history: the value pipe was first called with
    pipeVal,      \* initialValue of the function the chain holds
    pipeSteps,    \* history: the steps the chain was called with
    pipeOut       \* [done, val]: what the call with no step returned

pipeVars == <<pipeFirst, pipeVal, pipeSteps, pipeOut>>

VARIABLES
    eqHeap,       \* the objects created so far: address -> (key -> value)
    eqRes         \* [done, x, y, r]: the last call isEquals(x, y) and what it returned

eqVars == <<eqHeap, eqRes>>

VARIABLES
    pkHeap,       \* the objects of a pick / omit run: address -> (key -> value)
    pkKeys,       \* the key list handed to pick and omit
    pkTarget,     \* history: the target object as it was built
    pkOut         \* [pick, omit]: the objects the calls returned (NoObj: not called)

pickVars == <<pkHeap, pkKeys, pkTarget, pkOut>>

vars == <<timerVars, hookVars, pipeVars, eqVars, pickVars>>

----------------------------------------------------------------------------
(***************************************************************************)
(* window.setTimeout / window.clearTimeout and the event loop.             *)
(***************************************************************************)
Pending == DOMAIN timers
\* The pending timers armed by wrapper who ("debounce" or "throttle").
TimersOf(who) == {id \in Pending : timers[id].cb.who = who}

\* window.setTimeout(cb, ms) called at time `now`, returning handle id.
setTimeout(ts, id, cb, ms) == ts @@ (id :> [due |-> now + ms, cb |-> cb])

\* window.clearTimeout(id): a no-op for a handle that is not pending.
clearTimeout(ts, id) == [i \in (DOMAIN ts) \ {id} |-> ts[i]]

\* History records: a call of the wrapper (armed: a timer was pending when it
\* was made) and an invocation of func (sync: made inside a call of the wrapper).
CallEvent(who, a) ==
    [kind |-> "call", who |-> who, t |-> now, args |-> a, sync |-> FALSE,
     armed |-> TimersOf(who) # {}]
InvokeEvent(who, a, s) ==
    [kind |-> "invoke", who |-> who, t |-> now, args |-> a, sync |-> s,
     armed |-> FALSE]

NumCalls == Cardinality({i \in 1..Len(trace) : trace[i].kind = "call"})

\* Time passes. A timer fires at or after its due time, never before it: the
\* event loop may be busy when a timer falls due.
Tick ==
    /\ now < MaxTime
    /\ now' = now + 1
    /\ UNCHANGED <<delay, timers, nextId, timeout, previous, defineTimer, trace>>
    /\ UNCHANGED <<hookVars, pipeVars, eqVars, pickVars>>

TimerIdle ==
    /\ now = StartTime
    /\ delay = 1
    /\ timers = <<>>
    /\ nextId = 1
    /\ timeout = NoHandle
    /\ previous = NoHandle
    /\ defineTimer = NoHandle
    /\ trace = <<>>

HookIdle ==
    /\ refs = <<>>
    /\ closures = <<>>
    /\ nextObj = 1
    /\ refCell = NoObj
    /\ memoCell = [cb |-> NoObj, dep |-> NoObj]
    /\ renders = <<>>
    /\ applied = <<>>

PipeIdle ==
    /\ pipeFirst = 1
    /\ pipeVal = 1
    /\ pipeSteps = <<>>
    /\ pipeOut = [done |-> FALSE, val |-> 1]

\* JavaScript values: a primitive is [type, val], typeof null is "object", an
\* object (an array is an object keyed by its indices) is a reference to eqHeap.
Prim(type, val) == [type |-> type, val |-> val, ref |-> 0]
Null == [type |-> "object", val |-> "null", ref |-> 0]
Undef == Prim("undefined", "undefined")
NaN == Prim("number", "NaN")
Obj(a) == [type |-> "object", val |-> "", ref |-> a]

EqIdle ==
    /\ eqHeap = <<>>
    /\ eqRes = [done |-> FALSE, x |-> Undef, y |-> Undef, r |-> FALSE]

PickIdle ==
    /\ pkHeap = <<>>
    /\ pkKeys = <<>>
    /\ pkTarget = <<>>
    /\ pkOut = [pick |-> NoObj, omit |-> NoObj]

TimerInit ==
    /\ HookIdle
    /\ PipeIdle
    /\ EqIdle
    /\ PickIdle
    /\ now = StartTime
    /\ delay \in 1..MaxDelay
    /\ timers = <<>>
    /\ nextId = 1
    /\ timeout = NoHandle
    /\ previous = NoHandle
    /\ defineTimer = NoHandle
    /\ trace = <<>>

----------------------------------------------------------------------------
(***************************************************************************)
(* debounce(func, delay)                                                   *)
(***************************************************************************)
\* Mutant: the wrapper arms a new timer without clearing the pending one.
DebouncedCallNoClear(a) ==
    /\ NumCalls < MaxCalls
    /\ timers' = setTimeout(timers, nextId, [who |-> "debounce", args |-> a], delay)
    /\ timeout' = nextId
    /\ nextId' = nextId + 1
    /\ trace' = Append(trace, CallEvent("debounce", a))
    /\ UNCHANGED <<now, delay, previous, defineTimer>>
    /\ UNCHANGED <<hookVars, pipeVars, eqVars, pickVars>>

\* The wrapper returned by debounce, called with arguments a.
DebouncedCall(a) ==
    /\ NumCalls < MaxCalls
    /\ LET cleared == IF timeout # NoHandle THEN clearTimeout(timers, timeout)
                      ELSE timers
       IN  timers' = setTimeout(cleared, nextId, [who |-> "debounce", args |-> a], delay)
    /\ timeout' = nextId
    /\ nextId' = nextId + 1
    /\ trace' = Append(trace, CallEvent("debounce", a))
    /\ UNCHANGED <<now, delay, previous, defineTimer>>
    /\ UNCHANGED <<hookVars, pipeVars, eqVars, pickVars>>

\* Mutant: the callback passes func no arguments of the call that armed it
\* but those of the first call of the wrapper.
DebounceFireFirstArgs(id) ==
    /\ id \in TimersOf("debounce")
    /\ timers[id].due <= now
    /\ timers' = clearTimeout(timers, id)
    /\ trace' = Append(trace, InvokeEvent("debounce", trace[1].args, FALSE))
    /\ UNCHANGED <<now, delay, nextId, timeout, previous, defineTimer>>
    /\ UNCHANGED <<hookVars, pipeVars, eqVars, pickVars>>

\* The callback debounce hands to setTimeout: () => { func(...args) }.
DebounceFire(id) ==
    /\ id \in TimersOf("debounce")
    /\ timers[id].due <= now
    /\ timers' = clearTimeout(timers, id)
    /\ trace' = Append(trace, InvokeEvent("debounce", timers[id].cb.args, FALSE))
    /\ UNCHANGED <<now, delay, nextId, timeout, previous, defineTimer>>
    /\ UNCHANGED <<hookVars, pipeVars, eqVars, pickVars>>

DebounceNext ==
    \/ \E a \in Args : DebouncedCall(a)
    \/ \E id \in Pending : DebounceFire(id)
    \/ Tick

SpecDebounce == TimerInit /\ [][DebounceNext]_vars

\* Positions of the trace.
Events == 1..Len(trace)
IsCall(i) == trace[i].kind = "call"
IsInvoke(i) == trace[i].kind = "invoke"
\* The most recent call of the wrapper before position i (0: none).
LastCallBefore(i) ==
    LET js == {j \in 1..(i - 1) : IsCall(j)}
    IN  IF js = {} THEN 0 ELSE CHOOSE j \in js : \A k \in js : k <= j

\* C2: debounce invokes func only from the timer, never inside a call of the
\* wrapper, and only when at least delay has passed since the most recent
\* call of the wrapper: calls that keep arriving less than delay apart are
\* never followed by an invocation before the last of them is delay old.
DebounceWaitsForQuietDelay ==
    \A i \in Events :
        IsInvoke(i) =>
            /\ ~trace[i].sync
            /\ LastCallBefore(i) # 0
            /\ trace[i].t >= trace[LastCallBefore(i)].t + delay

\* C2 witness: a call restarted the timing of an earlier call less than delay
\* before it, and func was invoked after it.
DebounceRestartThenInvoke ==
    \E i \in Events :
        /\ IsInvoke(i)
        /\ i >= 3
        /\ IsCall(i - 1) /\ IsCall(i - 2)
        /\ trace[i - 1].t < trace[i - 2].t + delay
        /\ trace[i - 1].t > trace[i - 2].t

\* The calls of the wrapper and the invocations of func, in order.
CallPositions == {i \in Events : IsCall(i)}
InvokePositions == {i \in Events : IsInvoke(i)}
\* The call after call i (0: i is the last call).
NextCall(i) ==
    LET js == {j \in CallPositions : j > i}
    IN  IF js = {} THEN 0 ELSE CHOOSE j \in js : \A k \in js : j <= k
\* Call i ends a burst by the clock: no later call is less than delay after it.
EndsTimedBurst(i) == NextCall(i) = 0 \/ trace[NextCall(i)].t >= trace[i].t + delay
\* Call i ends a burst by the timer: the timer it armed was no longer pending
\* at the next call.
EndsArmedBurst(i) == NextCall(i) = 0 \/ ~trace[NextCall(i)].armed
\* The invocations of func between call i and the next call.
InvokesAfter(i) ==
    {k \in InvokePositions : k > i /\ (NextCall(i) = 0 \/ k < NextCall(i))}

\* C3 as stated: once no timer is pending, func has been invoked exactly once
\* per burst of calls less than delay apart, with the arguments of the
\* burst's last call.
DebounceOncePerTimedBurst ==
    Pending = {} =>
        \A i \in CallPositions :
            IF EndsTimedBurst(i)
            THEN /\ Cardinality(InvokesAfter(i)) = 1
                 /\ \A k \in InvokesAfter(i) : trace[k].args = trace[i].args
            ELSE InvokesAfter(i) = {}

\* C3 amended: a burst is a run of calls each made while the timer armed by
\* the call before it was still pending, which every call less than delay
\* after the call before it is. Once no timer is pending func has been invoked
\* exactly once per burst, with the arguments of the burst's last call.
DebounceOncePerArmedBurst ==
    /\ \A i \in CallPositions :
          NextCall(i) # 0 /\ ~EndsTimedBurst(i) => trace[NextCall(i)].armed
    /\ Pending = {} =>
          \A i \in CallPositions :
              IF EndsArmedBurst(i)
              THEN /\ Cardinality(InvokesAfter(i)) = 1
                   /\ \A k \in InvokesAfter(i) : trace[k].args = trace[i].args
              ELSE InvokesAfter(i) = {}

\* C3 witness: two bursts, the first of two calls with different arguments,
\* and no timer pending.
DebounceTwoBurstsDone ==
    /\ Pending = {}
    /\ Cardinality(InvokePositions) = 2
    /\ \E i \in CallPositions :
          /\ ~EndsTimedBurst(i)
          /\ trace[NextCall(i)].args # trace[i].args
          /\ InvokesAfter(NextCall(i)) # {}

----------------------------------------------------------------------------
(***************************************************************************)
(* throttle(func, delay)                                                   *)
(***************************************************************************)
\* Mutant: the throttled branch arms a new timer without clearing defineTimer.
ThrottledCallNoClear(a) ==
    /\ NumCalls < MaxCalls
    /\ IF previous # NoHandle /\ now < previous + delay
       THEN /\ timers' = setTimeout(timers, nextId,
                                    [who |-> "throttle", args |-> a, now |-> now],
                                    delay)
            /\ defineTimer' = nextId
            /\ nextId' = nextId + 1
            /\ trace' = Append(trace, CallEvent("throttle", a))
            /\ UNCHANGED previous
       ELSE /\ trace' = Append(Append(trace, CallEvent("throttle", a)),
                               InvokeEvent("throttle", a, TRUE))
            /\ previous' = now
            /\ UNCHANGED <<timers, defineTimer, nextId>>
    /\ UNCHANGED <<now, delay, timeout>>
    /\ UNCHANGED <<hookVars, pipeVars, eqVars, pickVars>>

\* The wrapper returned by throttle, called with arguments a.
ThrottledCall(a) ==
    /\ NumCalls < MaxCalls
    /\ IF previous # NoHandle /\ now < previous + delay
       THEN /\ LET cleared == IF defineTimer # NoHandle
                              THEN clearTimeout(timers, defineTimer)
                              ELSE timers
               IN  timers' = setTimeout(cleared, nextId,
                                        [who |-> "throttle", args |-> a, now |-> now],
                                        delay)
            /\ defineTimer' = nextId
            /\ nextId' = nextId + 1
            /\ trace' = Append(trace, CallEvent("throttle", a))
            /\ UNCHANGED previous
       ELSE /\ trace' = Append(Append(trace, CallEvent("throttle", a)),
                               InvokeEvent("throttle", a, TRUE))
            /\ previous' = now
            /\ UNCHANGED <<timers, defineTimer, nextId>>
    /\ UNCHANGED <<now, delay, timeout>>
    /\ UNCHANGED <<hookVars, pipeVars, eqVars, pickVars>>

\* The callback throttle hands to setTimeout: () => { func(...args); previous = now },
\* where `now` is the time of the call that armed the timer.
ThrottleFire(id) ==
    /\ id \in TimersOf("throttle")
    /\ timers[id].due <= now
    /\ timers' = clearTimeout(timers, id)
    /\ trace' = Append(trace, InvokeEvent("throttle", timers[id].cb.args, FALSE))
    /\ previous' = timers[id].cb.now
    /\ UNCHANGED <<now, delay, nextId, timeout, defineTimer>>
    /\ UNCHANGED <<hookVars, pipeVars, eqVars, pickVars>>

ThrottleNext ==
    \/ \E a \in Args : ThrottledCall(a)
    \/ \E id \in Pending : ThrottleFire(id)
    \/ Tick

SpecThrottle == TimerInit /\ [][ThrottleNext]_vars

\* C1: any two invocations of func by the throttled wrapper, synchronous or
\* from the trailing timer, are at least delay apart.
ThrottleAtMostOncePerDelay ==
    \A i, j \in InvokePositions :
        i < j => trace[j].t >= trace[i].t + delay

----------------------------------------------------------------------------
(***************************************************************************)
(* One page with a debounced and a throttled wrapper: they share the       *)
(* window's timers and clock, and each has its own closure variables.      *)
(***************************************************************************)
\* The arguments of a call play no part in the arming of timers: one value.
TimersNext ==
    \/ \E a \in {"x"} : DebouncedCall(a)
    \/ \E a \in {"x"} : ThrottledCall(a)
    \/ \E id \in Pending : DebounceFire(id)
    \/ \E id \in Pending : ThrottleFire(id)
    \/ Tick

SpecTimers == TimerInit /\ [][TimersNext]_vars

\* C11: each wrapper has at most one timer pending, and it is the one the
\* wrapper armed last: every timer it armed before is cancelled or has fired.
AtMostOnePendingTimer ==
    /\ Cardinality(TimersOf("debounce")) <= 1
    /\ Cardinality(TimersOf("throttle")) <= 1
    /\ TimersOf("debounce") \subseteq {timeout}
    /\ TimersOf("throttle") \subseteq {defineTimer}

\* Call i of wrapper who was made while a timer of who was pending, and armed
\* a new timer.
Rearmed(who, i) ==
    /\ IsCall(i) /\ trace[i].who = who /\ trace[i].armed
    /\ i = Len(trace) \/ ~(IsInvoke(i + 1) /\ trace[i + 1].sync)

\* C11 witness: both wrappers have a timer pending, and the throttled one
\* armed its timer while an earlier one of its own was pending.
BothPendingThrottleRearmed ==
    /\ TimersOf("debounce") # {} /\ TimersOf("throttle") # {}
    /\ \E i \in Events : Rearmed("throttle", i)

\* C12: a call of a wrapper made while a timer of that wrapper is pending
\* does not invoke func synchronously (it resets the timer or is absorbed).
CallWhilePendingNeverInvokes ==
    \A i \in Events :
        (IsCall(i) /\ trace[i].armed) =>
            ~(/\ i < Len(trace)
              /\ IsInvoke(i + 1)
              /\ trace[i + 1].sync
              /\ trace[i + 1].who = trace[i].who)

----------------------------------------------------------------------------
(***************************************************************************)
(* The hooks. A specification renders one component instance that calls    *)
(* one hook; React keeps the instance's hook cells between its renders.    *)
(***************************************************************************)
HookInit == TimerIdle /\ HookIdle /\ PipeIdle /\ EqIdle /\ PickIdle

\* React's useRef(): on the first render of the instance a new object
\* {current: undefined}, on every later render that same object.
\* [ref: the ref, refs: the objects after the call, next: the next identity]
useRef ==
    IF refCell = NoObj
    THEN [ref |-> nextObj, refs |-> refs @@ (nextObj :> Undefined), next |-> nextObj + 1]
    ELSE [ref |-> refCell, refs |-> refs, next |-> nextObj]

\* One render of a component that returns useConstant(init), init returning v:
\*   const ref = useRef(); if (!ref.current) ref.current = init(); return ref.current
RenderConstant(v) ==
    /\ Len(renders) < MaxRenders
    /\ LET r == useRef
           call == ~Truthy(r.refs[r.ref])
           after == IF call THEN [r.refs EXCEPT ![r.ref] = v] ELSE r.refs
       IN  /\ refs' = after
           /\ refCell' = r.ref
           /\ nextObj' = r.next
           /\ renders' = Append(renders,
                                [arg |-> v, called |-> call, ret |-> after[r.ref]])
    /\ UNCHANGED <<closures, memoCell, applied>>
    /\ UNCHANGED <<timerVars, pipeVars, eqVars, pickVars>>

ConstantNext == \E v \in HookValues : RenderConstant(v)

SpecConstant == HookInit /\ [][ConstantNext]_vars

\* C4: init is invoked on the first render of the instance and on no other.
ConstantInitCalledOnce ==
    \A i \in 1..Len(renders) : renders[i].called <=> (i = 1)

\* C5: every render returns the value init produced on the first render.
ConstantReturnsFirstValue ==
    \A i \in 1..Len(renders) : renders[i].ret = renders[1].arg

----------------------------------------------------------------------------
\* Mutant: the value is handed to useRef as its initial value and never
\* assigned again.
useLatestRefInitialOnly(value) ==
    LET r == useRef
    IN  [ref |-> r.ref,
         refs |-> IF refCell = NoObj THEN [r.refs EXCEPT ![r.ref] = value] ELSE r.refs,
         next |-> r.next]

\* useLatestRef(value): const ref = useRef(); ref.current = value; return ref
\* [ref: the ref returned, refs: the objects after the call, next: the next identity]
useLatestRef(value) ==
    LET r == useRef
    IN  [ref |-> r.ref, refs |-> [r.refs EXCEPT ![r.ref] = value], next |-> r.next]

\* One render of a component that returns useLatestRef(v).
RenderLatestRef(v) ==
    /\ Len(renders) < MaxRenders
    /\ LET r == useLatestRef(v)
       IN  /\ refs' = r.refs
           /\ refCell' = r.ref
           /\ nextObj' = r.next
           /\ renders' = Append(renders, [arg |-> v, called |-> FALSE, ret |-> r.ref])
    /\ UNCHANGED <<closures, memoCell, applied>>
    /\ UNCHANGED <<timerVars, pipeVars, eqVars, pickVars>>

LatestRefNext == \E v \in HookValues \cup {Undefined} : RenderLatestRef(v)

SpecLatestRef == HookInit /\ [][LatestRefNext]_vars

\* C7: after every render the ref returned is the ref the first render
\* returned, and its current is the value passed to the most recent render.
LatestRefSameRefLatestValue ==
    /\ \A i \in 1..Len(renders) : renders[i].ret = renders[1].ret
    /\ renders # <<>> =>
          /\ renders[Len(renders)].ret \in DOMAIN refs
          /\ refs[renders[Len(renders)].ret] = renders[Len(renders)].arg

\* C7 witness: three renders, the last with a value other than the first's.
LatestRefRerendered ==
    /\ Len(renders) = 3
    /\ renders[3].arg # renders[1].arg
    /\ renders[2].arg # renders[3].arg

----------------------------------------------------------------------------
\* Mutant: useCallback is given no dependency list, and returns the function
\* of the current render.
useCallbackNoDeps(dep, id) == [cb |-> id, fresh |-> TRUE]

\* React's useCallback(fn, [dep]): the function of the first render, and again
\* that one while dep is the same object; id is the identity of this render's fn.
useCallback(dep, id) ==
    IF memoCell.cb = NoObj \/ memoCell.dep # dep
    THEN [cb |-> id, fresh |-> TRUE]
    ELSE [cb |-> memoCell.cb, fresh |-> FALSE]

\* One render of a component that returns useLatestFunc(f):
\*   const ref = useLatestRef(func);
\*   const apply = useCallback((...args) => ref.current!(...args), [ref]);
\*   return ref.current ? apply : void 0
RenderLatestFunc(f) ==
    /\ Len(renders) < MaxRenders
    /\ LET r == useLatestRef(f)
           apply == useCallback(r.ref, r.next)
       IN  /\ refs' = r.refs
           /\ refCell' = r.ref
           /\ closures' = IF apply.fresh THEN closures @@ (apply.cb :> r.ref)
                          ELSE closures
           /\ memoCell' = [cb |-> apply.cb, dep |-> r.ref]
           /\ nextObj' = r.next + 1
           /\ renders' = Append(renders,
                  [arg |-> f, called |-> FALSE,
                   ret |-> IF Truthy(r.refs[r.ref]) THEN apply.cb ELSE NoObj])
    /\ UNCHANGED applied
    /\ UNCHANGED <<timerVars, pipeVars, eqVars, pickVars>>

\* A caller calls, with arguments a, the wrapper render k returned:
\* ref.current!(...args), a TypeError when ref.current is undefined.
ApplyWrapper(k, a) ==
    /\ Len(applied) < MaxApplies
    /\ renders[k].ret # NoObj
    /\ LET target == refs[closures[renders[k].ret]]
       IN  applied' = Append(applied,
               [wrapper |-> k, args |-> a, after |-> Len(renders),
                func |-> target, passed |-> a, threw |-> target = Undefined])
    /\ UNCHANGED <<refs, closures, nextObj, refCell, memoCell, renders>>
    /\ UNCHANGED <<timerVars, pipeVars, eqVars, pickVars>>

LatestFuncNext ==
    \/ \E f \in Funcs \cup {Undefined} : RenderLatestFunc(f)
    \/ \E k \in 1..Len(renders), a \in Args : ApplyWrapper(k, a)

SpecLatestFunc == HookInit /\ [][LatestFuncNext]_vars

\* The renders that were passed a function.
DefinedRenders == {i \in 1..Len(renders) : renders[i].arg # Undefined}

----------------------------------------------------------------------------
(***************************************************************************)
(* pipe(initialValue)(t1)...(tn)()                                         *)
(***************************************************************************)
PipeInputs == {1, 2, 3}
\* The steps of a chain, by name: functions on numbers, the falsy steps the
\* type PipeTransformer admits, and a value that is neither.
PipeFunctions == {"inc", "dbl", "neg"}
PipeFalsy == {"undefined", "null", "false"}
PipeStepValues == PipeFunctions \cup PipeFalsy \cup {"str"}

\* typeof fn === 'function'
isFunction(t) == t \in PipeFunctions

\* transformers[0](initialValue)
Transform(t, x) ==
    CASE t = "inc" -> x + 1
      [] t = "dbl" -> x * 2
      [] t = "neg" -> 0 - x

\* Mutant: a step is applied to the value the chain started with.
pipeNextStale(t, x) == IF ~isFunction(t) THEN x ELSE Transform(t, pipeFirst)

\* The initialValue of the function a call with step t returns:
\*   if (!isFunction(transformers[0])) return pipe(initialValue);
\*   return pipe(transformers[0](initialValue))
pipeNext(t, x) == IF ~isFunction(t) THEN x ELSE Transform(t, x)

PipeInit ==
    /\ TimerIdle
    /\ HookIdle
    /\ EqIdle
    /\ PickIdle
    /\ pipeFirst \in PipeInputs
    /\ pipeVal = pipeFirst
    /\ pipeSteps = <<>>
    /\ pipeOut = [done |-> FALSE, val |-> pipeFirst]

\* The chain is called with one step.
PipeStep(t) ==
    /\ ~pipeOut.done
    /\ Len(pipeSteps) < MaxSteps
    /\ pipeVal' = pipeNext(t, pipeVal)
    /\ pipeSteps' = Append(pipeSteps, t)
    /\ UNCHANGED <<pipeFirst, pipeOut>>
    /\ UNCHANGED <<timerVars, hookVars, eqVars, pickVars>>

\* The chain is called with no step: if (transformers.length === 0) return initialValue
PipeEnd ==
    /\ ~pipeOut.done
    /\ pipeOut' = [done |-> TRUE, val |-> pipeVal]
    /\ UNCHANGED <<pipeFirst, pipeVal, pipeSteps>>
    /\ UNCHANGED <<timerVars, hookVars, eqVars, pickVars>>

PipeNext ==
    \/ \E t \in PipeStepValues : PipeStep(t)
    \/ PipeEnd

SpecPipe == PipeInit /\ [][PipeNext]_vars

\* The function steps of ts applied to v in order, the falsy steps skipped.
RECURSIVE FunctionsInOrder(_, _)
FunctionsInOrder(v, ts) ==
    IF ts = <<>> THEN v
    ELSE IF Head(ts) \in PipeFalsy THEN FunctionsInOrder(v, Tail(ts))
    ELSE FunctionsInOrder(Transform(Head(ts), v), Tail(ts))

\* C8: the call with no step returns the function steps applied in order to
\* the starting value, falsy steps skipped; with no step at all, the starting value.
PipeAppliesFunctionsInOrder ==
    (pipeOut.done /\ \A i \in 1..Len(pipeSteps) : pipeSteps[i] \in PipeFunctions \cup PipeFalsy)
        => pipeOut.val = FunctionsInOrder(pipeFirst, pipeSteps)

\* C8 witness: a finished chain of a function, a falsy step and another function
\* that does not commute with the first.
PipeSkippedBetweenFunctions ==
    /\ pipeOut.done
    /\ pipeSteps = <<"inc", "false", "dbl">>
    /\ pipeOut.val = (pipeFirst + 1) * 2

----------------------------------------------------------------------------
(***************************************************************************)
(* isEquals(x, y)                                                          *)
(***************************************************************************)
Keys == {"a", "b"}
\* The primitives a field holds, and those isEquals is handed.
FieldPrims == {Prim("number", "1"), NaN, Undef}
TopPrims == FieldPrims \cup {Null, Prim("string", "1")}
Refs(h) == {Obj(a) : a \in 1..Len(h)}
\* The objects an object literal over the values of h can create.
Literals(h) == UNION {[ks -> FieldPrims \cup Refs(h)] : ks \in SUBSET Keys}

typeof(x) == x.type
\* x === y : the same primitive value other than NaN, or the same reference.
StrictEquals(x, y) == x = y /\ x # NaN
\* Object.keys(x), Reflect.has(x, key), Reflect.get(x, key) of an object
\* whose keys are none of Object.prototype's.
ObjectKeys(h, x) == DOMAIN h[x.ref]
ReflectHas(h, x, key) == key \in DOMAIN h[x.ref]
ReflectGet(h, x, key) == IF key \in DOMAIN h[x.ref] THEN h[x.ref][key] ELSE Undef

\* Mutant: the numbers of keys are not compared.
keysLengthDifferNever(xKeys, yKeys) == FALSE

\* xKeys.length !== yKeys.length
keysLengthDiffer(xKeys, yKeys) == Cardinality(xKeys) # Cardinality(yKeys)

RECURSIVE isEquals(_, _, _)
isEquals(h, x, y) ==
    IF StrictEquals(x, y) THEN TRUE
    ELSE IF typeof(x) # "object" \/ typeof(y) # "object"
    THEN (IF typeof(x) = typeof(y) THEN StrictEquals(x, y) ELSE FALSE)
    ELSE IF x = Null \/ y = Null THEN FALSE
    ELSE IF keysLengthDiffer(ObjectKeys(h, x), ObjectKeys(h, y)) THEN FALSE
    ELSE \A key \in ObjectKeys(h, x) :
            ~(\/ ~ReflectHas(h, y, key)
              \/ ~isEquals(h, ReflectGet(h, x, key), ReflectGet(h, y, key)))

EqInit ==
    /\ TimerIdle
    /\ HookIdle
    /\ PipeIdle
    /\ EqIdle
    /\ PickIdle

\* An object literal is evaluated: its fields hold primitives and objects
\* that exist already.
NewObject(o) ==
    /\ ~eqRes.done
    /\ Len(eqHeap) < MaxObjs
    /\ eqHeap' = Append(eqHeap, o)
    /\ UNCHANGED eqRes
    /\ UNCHANGED <<timerVars, hookVars, pipeVars, pickVars>>

\* isEquals(x, y) is called, once the values are built.
Compare(x, y) ==
    /\ ~eqRes.done
    /\ eqRes' = [done |-> TRUE, x |-> x, y |-> y, r |-> isEquals(eqHeap, x, y)]
    /\ UNCHANGED eqHeap
    /\ UNCHANGED <<timerVars, hookVars, pipeVars, pickVars>>

EqNext ==
    \/ \E o \in Literals(eqHeap) : NewObject(o)
    \/ \E x, y \in TopPrims \cup Refs(eqHeap) : Compare(x, y)

SpecEquals == EqInit /\ [][EqNext]_vars

IsObject(x) == x.ref # 0
IsPrimitive(x) == x.ref = 0
\* x and y are equal as C9 says it.
RECURSIVE DeepEqual(_, _, _)
DeepEqual(h, x, y) ==
    \/ IsPrimitive(x) /\ IsPrimitive(y) /\ x = y /\ x # NaN
    \/ IsObject(x) /\ IsObject(y) /\ x.ref = y.ref
    \/ /\ IsObject(x) /\ IsObject(y)
       /\ Cardinality(DOMAIN h[x.ref]) = Cardinality(DOMAIN h[y.ref])
       /\ \A k \in DOMAIN h[x.ref] :
             k \in DOMAIN h[y.ref] /\ DeepEqual(h, h[x.ref][k], h[y.ref][k])

StackLimit == MaxObjs + 2
\* Object.keys(x) in the order of insertion; literals are written a before b.
KeyOrder == <<"a", "b">>
ObjectKeysInOrder(h, x) == SelectSeq(KeyOrder, LAMBDA k : k \in ObjectKeys(h, x))

RECURSIVE isEqualsOnStack(_, _, _, _)
RECURSIVE isEqualsKeys(_, _, _, _, _)
\* for (const key of xKeys) { if (!Reflect.has(y, key) || !isEquals(..)) return false }
\* return true
isEqualsKeys(h, x, y, keys, depth) ==
    IF keys = <<>> THEN "true"
    ELSE IF ~ReflectHas(h, y, Head(keys)) THEN "false"
    ELSE LET r == isEqualsOnStack(h, ReflectGet(h, x, Head(keys)),
                                  ReflectGet(h, y, Head(keys)), depth + 1)
         IN  IF r = "true" THEN isEqualsKeys(h, x, y, Tail(keys), depth) ELSE r

\* isEquals(x, y) in the frame number depth of the call stack.
isEqualsOnStack(h, x, y, depth) ==
    IF depth > StackLimit THEN "RangeError"
    ELSE IF StrictEquals(x, y) THEN "true"
    ELSE IF typeof(x) # "object" \/ typeof(y) # "object"
    THEN (IF typeof(x) = typeof(y) /\ StrictEquals(x, y) THEN "true" ELSE "false")
    ELSE IF x = Null \/ y = Null THEN "false"
    ELSE IF keysLengthDiffer(ObjectKeys(h, x), ObjectKeys(h, y)) THEN "false"
    ELSE isEqualsKeys(h, x, y, ObjectKeysInOrder(h, x), depth)

\* o.k = v for a field o has: v is any object, o itself included.
AssignField(a, k, v) ==
    /\ ~eqRes.done
    /\ a \in 1..Len(eqHeap)
    /\ k \in DOMAIN eqHeap[a]
    /\ eqHeap[a][k] # v
    /\ eqHeap' = [eqHeap EXCEPT ![a][k] = v]
    /\ UNCHANGED eqRes
    /\ UNCHANGED <<timerVars, hookVars, pipeVars, pickVars>>

\* isEquals(x, y) is called from the top of the stack.
CompareOnStack(x, y) ==
    /\ ~eqRes.done
    /\ eqRes' = [done |-> TRUE, x |-> x, y |-> y,
                 r |-> isEqualsOnStack(eqHeap, x, y, 1)]
    /\ UNCHANGED eqHeap
    /\ UNCHANGED <<timerVars, hookVars, pipeVars, pickVars>>

EqCyclicNext ==
    \/ \E o \in Literals(eqHeap) : NewObject(o)
    \/ \E a \in 1..MaxObjs, k \in Keys, v \in Refs(eqHeap) : AssignField(a, k, v)
    \/ \E x, y \in {Null, Undef} \cup Refs(eqHeap) : CompareOnStack(x, y)

SpecEqualsCyclic == EqInit /\ [][EqCyclicNext]_vars

\* C13: every call of isEquals, on objects that reference themselves
\* included, returns a boolean and raises no error.
IsEqualsReturnsBoolean ==
    eqRes.done => eqRes.r \in {"true", "false"}

\* A RangeError is raised only for two different objects.
RangeErrorOnlyOnDistinctObjects ==
    (eqRes.done /\ eqRes.r = "RangeError") =>
        IsObject(eqRes.x) /\ IsObject(eqRes.y) /\ eqRes.x # eqRes.y

----------------------------------------------------------------------------
(***************************************************************************)
(* pick(target, keys) and omit(target, keys)                               *)
(***************************************************************************)
\* The keys of the target's type (T extends keyof O); the target has some or
\* all of them as own fields.
PickKeys == {"a", "b", "c"}
PickValues == {"1", "2", "undefined"}
Targets == UNION {[ks -> PickValues] : ks \in SUBSET PickKeys}
\* The key lists of length n and less.
KeyLists(n) == UNION {[1..m -> PickKeys] : m \in 0..n}
Range(keys) == {keys[i] : i \in 1..Len(keys)}

\* Reflect.ownKeys(target) as an array.
RECURSIVE ownKeys(_)
ownKeys(o) ==
    IF DOMAIN o = {} THEN <<>>
    ELSE LET k == CHOOSE k \in DOMAIN o : TRUE
         IN  <<k>> \o ownKeys([j \in (DOMAIN o) \ {k} |-> o[j]])

\* value[key] = v
SetField(o, key, v) == [k \in (DOMAIN o) \cup {key} |-> IF k = key THEN v ELSE o[k]]

\* keys.reduce((value, key) => {
\*     if (Reflect.has(target, key)) value[key] = Reflect.get(target, key, target);
\*     return value }, value)
\* on the heap h, target and value being addresses: the heap after it.
RECURSIVE pickReduce(_, _, _, _)
pickReduce(h, target, keys, value) ==
    IF keys = <<>> THEN h
    ELSE LET key == Head(keys)
             after == IF key \in DOMAIN h[target]
                      THEN [h EXCEPT ![value] = SetField(h[value], key, h[target][key])]
                      ELSE h
         IN  pickReduce(after, target, Tail(keys), value)

\* pick(target, keys): [heap: the heap after the call, ret: the object returned]
pick(h, target, keys) ==
    [heap |-> pickReduce(Append(h, <<>>), target, keys, Len(h) + 1),
     ret |-> Len(h) + 1]

\* Mutant: the filter keeps the keys that are in the list.
omitFilterKept(own, keys) == SelectSeq(own, LAMBDA key : key \in Range(keys))

\* ownKeys.filter((key) => !keys.includes(key))
omitFilter(own, keys) == SelectSeq(own, LAMBDA key : key \notin Range(keys))

\* omit(target, keys)
omit(h, target, keys) == pick(h, target, omitFilter(ownKeys(h[target]), keys))

\* The address of the target object.
TargetObj == 1

PickInit ==
    /\ TimerIdle
    /\ HookIdle
    /\ PipeIdle
    /\ EqIdle
    /\ pkTarget \in Targets
    /\ pkHeap = <<pkTarget>>
    /\ pkKeys \in KeyLists(MaxKeys)
    /\ pkOut = [pick |-> NoObj, omit |-> NoObj]

\* pick(target, keys) is called.
CallPick ==
    /\ pkOut.pick = NoObj
    /\ LET r == pick(pkHeap, TargetObj, pkKeys)
       IN  /\ pkHeap' = r.heap
           /\ pkOut' = [pkOut EXCEPT !.pick = r.ret]
    /\ UNCHANGED <<pkKeys, pkTarget>>
    /\ UNCHANGED <<timerVars, hookVars, pipeVars, eqVars>>

\* omit(target, keys) is called.
CallOmit ==
    /\ pkOut.omit = NoObj
    /\ LET r == omit(pkHeap, TargetObj, pkKeys)
       IN  /\ pkHeap' = r.heap
           /\ pkOut' = [pkOut EXCEPT !.omit = r.ret]
    /\ UNCHANGED <<pkKeys, pkTarget>>
    /\ UNCHANGED <<timerVars, hookVars, pipeVars, eqVars>>

PickNext == CallPick \/ CallOmit

SpecPick == PickInit /\ [][PickNext]_vars

\* Object o has the fields of pkTarget named in ks, with pkTarget's values.
HasExactly(o, ks) ==
    /\ DOMAIN o = ks
    /\ \A k \in ks : o[k] = pkTarget[k]

====
